---- MODULE Spec2Model ----
(***************************************************************************)
(* Model of generate-charts.py: the report generator that loads benchmark  *)
(* result files, groups them by workload and renders charts, summary.txt   *)
(* and comparison_report.md.                                               *)
(*                                                                         *)
(* Numbers are exact rationals <<n, d>> (d > 0, lowest terms); binary      *)
(* floating point rounding is not modelled.  A Python value is a record    *)
(* [t, v]: t = "num" with v = <<n, d>>, "list" with v the list of integer  *)
(* elements, "null" (None), "inf" (float('inf')) or "raise" (the           *)
(* evaluation raised an exception).                                        *)
(***************************************************************************)
EXTENDS Integers, Sequences, FiniteSets, TLC

\* ------------------------------------------------------------------------
\* Bounds of the model
\* ------------------------------------------------------------------------

\* Largest number of *.json files in the results directory.
MaxFiles == 3

\* Largest number of results in the group handed to a directly called
\* report function (specification SpecFn).
MaxGroup == 2

\* ------------------------------------------------------------------------
\* Values
\* ------------------------------------------------------------------------

Abs(x) == IF x < 0 THEN -x ELSE x

RECURSIVE GCD(_, _)
GCD(a, b) == IF b = 0 THEN a ELSE GCD(b, a % b)

Num(n, d) ==
    LET g == GCD(Abs(n), d)
    IN  [t |-> "num", v |-> <<n \div g, d \div g>>]

PyInt(x)  == Num(x, 1)
PyList(s) == [t |-> "list", v |-> s]
PyNone    == [t |-> "null", v |-> <<>>]
PyInf     == [t |-> "inf", v |-> <<>>]
Raised    == [t |-> "raise", v |-> <<>>]

\* The marker of a key the JSON object does not hold.
Missing == "<missing>"

RECURSIVE Sum(_)
Sum(s) == IF s = <<>> THEN 0 ELSE Head(s) + Sum(Tail(s))

\* np.mean of a non-empty list of numbers.
np_mean(s) == Num(Sum(s), Len(s))

\* float(x): None and lists raise TypeError, numbers and inf pass.
float(x) ==
    IF x.t \in {"num", "inf"} THEN x ELSE Raised

\* bool(x) of a non-list value, as `if val` evaluates it.
Truthy(x) ==
    CASE x.t = "null" -> FALSE
      [] x.t = "num"  -> x.v[1] # 0
      [] OTHER        -> TRUE

\* a < b on numbers and inf.
Less(a, b) ==
    CASE a.t = "inf" -> FALSE
      [] b.t = "inf" -> TRUE
      [] OTHER       -> a.v[1] * b.v[2] < b.v[1] * a.v[2]

Positive(a) == Less(PyInt(0), a)

\* `val = mean(val) if len(val) > 0 else 0` under `isinstance(val, list)`.
Aggregate(val) ==
    IF val.t = "list"
    THEN IF Len(val.v) > 0 THEN np_mean(val.v) ELSE PyInt(0)
    ELSE val

\* The aggregation every chart and the summary table inline, ending in float().
FloatOfAggregate(val) == float(Aggregate(val))

\* get_mean, the helper of create_comparison_report.
get_mean(val) ==
    IF val.t = "list"
    THEN IF Len(val.v) > 0 THEN float(np_mean(val.v)) ELSE PyInt(0)
    ELSE IF Truthy(val) THEN float(val) ELSE PyInt(0)

\* dict.get(key, default) on the metrics of a result.
Get(r, key, default) ==
    IF key \in DOMAIN r.metrics THEN r.metrics[key] ELSE default

\* result.get('driver', 'unknown')
GetDriver(r) == IF r.driver = Missing THEN "unknown" ELSE r.driver

\* ------------------------------------------------------------------------
\* Number formatting
\* ------------------------------------------------------------------------

RECURSIVE Pow10(_)
Pow10(p) == IF p = 0 THEN 1 ELSE 10 * Pow10(p - 1)

\* n/d rounded to an integer, ties to even.
RoundHalfEven(n, d) ==
    LET q == n \div d
        r == n - q * d
    IN  IF 2 * r < d THEN q
        ELSE IF 2 * r > d THEN q + 1
        ELSE IF q % 2 = 0 THEN q ELSE q + 1

\* f"{x:.<p>f}": the decimal m / 10^p nearest to x, as [t |-> "dec", v |-> <<m, p>>];
\* inf prints as inf.
Format(x, p) ==
    IF x.t # "num" THEN x
    ELSE [t |-> "dec", v |-> <<RoundHalfEven(x.v[1] * Pow10(p), x.v[2]), p>>]

\* f"{int(height):,}": truncation towards zero.
FormatInt(x) ==
    IF x.t # "num" THEN Raised
    ELSE LET n == x.v[1]
             d == x.v[2]
             m == IF n >= 0 THEN n \div d ELSE -((-n) \div d)
         IN  [t |-> "dec", v |-> <<m, 0>>]

\* ------------------------------------------------------------------------
\* load_results: what one *.json file contributes
\* ------------------------------------------------------------------------

\* The file names (stems) of the directory, in the order glob yields them.
Stems == <<"w1", "r2", "r3", "r4", "r5">>

\* json.load and the two data.get defaults for a file holding a JSON object:
\* 'driver' defaults to 'unknown', 'workload' to the file's stem.
LoadedData(file, stem) ==
    [driver   |-> IF file.driver = Missing THEN "unknown" ELSE file.driver,
     workload |-> IF file.workload = Missing THEN stem ELSE file.workload,
     metrics  |-> file.metrics]

\* Mutant of LoadSucceeds: whatever json.load accepts is kept, object or not.
LoadSucceedsAnyJson(file) == file.kind \in {"object", "nonobject"}

\* Whether the body of the try block completes: open() and json.load()
\* succeed and the value has a .get method (it is a JSON object).
LoadSucceeds(file) == file.kind = "object"

\* ------------------------------------------------------------------------
\* group_by_workload
\* ------------------------------------------------------------------------

\* The position of workload w among the keys of grouped, 0 when absent.
KeyIndex(grouped, w) ==
    IF \E k \in 1..Len(grouped) : grouped[k].workload = w
    THEN CHOOSE k \in 1..Len(grouped) : grouped[k].workload = w
    ELSE 0

\* Mutant of GroupStep: a later result of a workload replaces the group.
GroupStepOverwrite(grouped, result) ==
    LET k == KeyIndex(grouped, result.workload)
    IN  IF k = 0
        THEN Append(grouped, [workload |-> result.workload, results |-> <<result>>])
        ELSE [grouped EXCEPT ![k].results = <<result>>]

\* One iteration of the loop: create the key on first sight, then append.
GroupStep(grouped, result) ==
    LET k == KeyIndex(grouped, result.workload)
    IN  IF k = 0
        THEN Append(grouped, [workload |-> result.workload, results |-> <<result>>])
        ELSE [grouped EXCEPT ![k].results = Append(@, result)]

RECURSIVE GroupFold(_, _, _)
GroupFold(results, i, grouped) ==
    IF i > Len(results) THEN grouped
    ELSE GroupFold(results, i + 1, GroupStep(grouped, results[i]))

\* The dict group_by_workload returns, as the sequence of its items in
\* insertion order.
group_by_workload(results) == GroupFold(results, 1, <<>>)

\* ------------------------------------------------------------------------
\* Charts
\* ------------------------------------------------------------------------

ThroughputKeys == <<"publishRate", "consumeRate">>
LatencyKeys    == <<"publishLatency50pct", "publishLatency95pct", "publishLatency99pct">>
EndToEndKeys   == <<"endToEndLatencyAvg", "endToEndLatency99pct">>

\* The heights of one bar series: r.get(key, 0), aggregated, as float.
BarSeries(results, key) ==
    [i \in 1..Len(results) |-> FloatOfAggregate(Get(results[i], key, PyInt(0)))]

SeriesRaises(series) == \E i \in 1..Len(series) : series[i].t = "raise"

\* A chart: the x tick labels (one per result), the bar heights of each
\* series and the value labels drawn on the bars.  r['driver'] raises
\* KeyError on a result without the key; float() raises on None.
BarChart(results, keys, places) ==
    LET bars   == [s \in 1..Len(keys) |-> BarSeries(results, keys[s])]
        raises == \/ \E i \in 1..Len(results) : results[i].driver = Missing
                  \/ \E s \in 1..Len(keys) : SeriesRaises(bars[s])
    IN  IF raises
        THEN [raised |-> TRUE, drivers |-> <<>>, bars |-> <<>>, labels |-> <<>>]
        ELSE [raised  |-> FALSE,
              drivers |-> [i \in 1..Len(results) |-> results[i].driver],
              bars    |-> bars,
              labels  |-> [s \in 1..Len(keys) |->
                             [i \in 1..Len(results) |->
                                IF places = 0 THEN FormatInt(bars[s][i])
                                ELSE Format(bars[s][i], places)]]]

create_throughput_chart(results) == BarChart(results, ThroughputKeys, 0)

create_latency_chart(results) == BarChart(results, LatencyKeys, 2)

create_end_to_end_latency_chart(results) == BarChart(results, EndToEndKeys, 2)

\* ------------------------------------------------------------------------
\* create_summary_table
\* ------------------------------------------------------------------------

SummaryKeys == <<"publishRate", "consumeRate", "publishLatency50pct",
                 "publishLatency99pct", "endToEndLatencyAvg">>

SummaryPlaces == <<0, 0, 2, 2, 2>>

\* One row of the table; the f-string raises when float() is given None.
SummaryRow(result) ==
    LET vals == [k \in 1..Len(SummaryKeys) |->
                    FloatOfAggregate(Get(result, SummaryKeys[k], PyInt(0)))]
    IN  IF SeriesRaises(vals)
        THEN [raised |-> TRUE, driver |-> GetDriver(result), cells |-> <<>>]
        ELSE [raised |-> FALSE, driver |-> GetDriver(result),
              cells  |-> [k \in 1..Len(SummaryKeys) |-> Format(vals[k], SummaryPlaces[k])]]

RowRaises(results) == \E i \in 1..Len(results) : SummaryRow(results[i]).raised

\* The rows written for one workload: all of them, or those before the
\* first row that raises.
SummaryRows(results) ==
    LET n == IF RowRaises(results)
             THEN (CHOOSE i \in 1..Len(results) :
                      /\ SummaryRow(results[i]).raised
                      /\ \A j \in 1..(i - 1) : ~SummaryRow(results[j]).raised) - 1
             ELSE Len(results)
    IN  [i \in 1..n |-> SummaryRow(results[i])]

\* summary.txt as left on disk: the file is opened (and so created) before
\* any row is formatted; an exception leaves the sections written so far.
create_summary_table(grouped) ==
    LET raises == \E k \in 1..Len(grouped) : RowRaises(grouped[k].results)
        n == IF raises
             THEN CHOOSE k \in 1..Len(grouped) :
                      /\ RowRaises(grouped[k].results)
                      /\ \A j \in 1..(k - 1) : ~RowRaises(grouped[j].results)
             ELSE Len(grouped)
    IN  [raised   |-> raises,
         sections |-> [k \in 1..n |->
                          [workload |-> grouped[k].workload,
                           rows     |-> SummaryRows(grouped[k].results)]]]

\* ------------------------------------------------------------------------
\* create_comparison_report
\* ------------------------------------------------------------------------

ReportKeys == <<"publishRate", "consumeRate", "publishLatency50pct",
                "publishLatency99pct", "endToEndLatencyAvg", "endToEndLatency99pct">>

ReportPlaces == <<0, 0, 2, 2, 2, 2>>

\* Mutant of MaxIndex: a later index with an equal key replaces the best.
RECURSIVE MaxIndexLast(_, _, _)
MaxIndexLast(keys, i, best) ==
    IF i > Len(keys) THEN best
    ELSE MaxIndexLast(keys, i + 1, IF Less(keys[i], keys[best]) THEN best ELSE i)

\* max(range(n), key=...): the first index holding the largest key.
RECURSIVE MaxIndex(_, _, _)
MaxIndex(keys, i, best) ==
    IF i > Len(keys) THEN best
    ELSE MaxIndex(keys, i + 1, IF Less(keys[best], keys[i]) THEN i ELSE best)

\* min(range(n), key=...): the first index holding the smallest key.
RECURSIVE MinIndex(_, _, _)
MinIndex(keys, i, best) ==
    IF i > Len(keys) THEN best
    ELSE MinIndex(keys, i + 1, IF Less(keys[i], keys[best]) THEN i ELSE best)

\* throughputs = [get_mean(r.get('publishRate', 0)) for r in results]
Throughputs(results) ==
    [i \in 1..Len(results) |-> get_mean(Get(results[i], "publishRate", PyInt(0)))]

\* latencies = [get_mean(r.get('publishLatency99pct', float('inf'))) for r in results]
Latencies(results) ==
    [i \in 1..Len(results) |-> get_mean(Get(results[i], "publishLatency99pct", PyInf))]

\* Mutant of LatencyKey: the latency itself is the key, zero included.
LatencyKeyRaw(lat) == lat

\* key=lambda i: latencies[i] if latencies[i] > 0 else float('inf')
LatencyKey(lat) == IF Positive(lat) THEN lat ELSE PyInf

BestThroughputIndex(results) == MaxIndex(Throughputs(results), 1, 1)

BestLatencyIndex(results) ==
    LET lats == Latencies(results)
    IN  MinIndex([i \in 1..Len(results) |-> LatencyKey(lats[i])], 1, 1)

\* One "## workload" section: the header row of drivers, the six metric
\* rows and the two lines of the winner analysis.
ReportSection(group) ==
    LET results == group.results
        bt == BestThroughputIndex(results)
        bl == BestLatencyIndex(results)
    IN  [workload |-> group.workload,
         drivers  |-> [i \in 1..Len(results) |-> GetDriver(results[i])],
         rows     |-> [k \in 1..Len(ReportKeys) |->
                         [i \in 1..Len(results) |->
                            Format(get_mean(Get(results[i], ReportKeys[k], PyInt(0))),
                                   ReportPlaces[k])]],
         best_throughput |-> [driver |-> GetDriver(results[bt]),
                              value  |-> Format(Throughputs(results)[bt], 0)],
         lowest_p99      |-> [driver |-> GetDriver(results[bl]),
                              value  |-> Format(Latencies(results)[bl], 2)]]

\* comparison_report.md; get_mean raises on no value of the modelled kinds,
\* so every section is written.
create_comparison_report(grouped) ==
    [raised   |-> FALSE,
     sections |-> [k \in 1..Len(grouped) |-> ReportSection(grouped[k])]]

\* ------------------------------------------------------------------------
\* Inputs
\* ------------------------------------------------------------------------

MetricKeys == {"publishRate", "consumeRate", "publishLatency50pct",
               "publishLatency95pct", "publishLatency99pct",
               "endToEndLatencyAvg", "endToEndLatency99pct"}

\* In an input description: the key is not in the JSON object.
Absent == [t |-> "absent", v |-> <<>>]

\* The metrics of an input object: value a under publishRate,
\* publishLatency50pct and endToEndLatencyAvg, value b under the other keys.
Metrics(a, b) ==
    LET full == [k \in MetricKeys |->
                    IF k \in {"publishRate", "publishLatency50pct", "endToEndLatencyAvg"}
                    THEN a ELSE b]
    IN  [k \in {x \in MetricKeys : full[x].t # "absent"} |-> full[k]]

Object(driver, workload, a, b) ==
    [kind |-> "object", driver |-> driver, workload |-> workload,
     metrics |-> Metrics(a, b)]

NoObject(kind) ==
    [kind |-> kind, driver |-> Missing, workload |-> Missing,
     metrics |-> Metrics(Absent, Absent)]

\* The contents a *.json file of the directory may have: a file that cannot
\* be opened, one that is not JSON, one holding a JSON array, and objects.
FileSamples ==
    { NoObject("unreadable"), NoObject("invalid"), NoObject("nonobject"),
      Object("nats",    "w1",    PyInt(2),            PyInt(3)),
      Object("pulsar",  "w1",    PyList(<<1, 3>>),    PyList(<<1, 2>>)),
      Object("nats",    "w1",    PyList(<<>>),        Absent),
      Object("pulsar",  "w2",    Absent,              PyInt(0)),
      Object(Missing,   Missing, PyInt(3),            PyList(<<>>)),
      Object("pravega", "w1",    PyList(<<2, 3>>),    PyInt(3)),
      Object("nats",    "w2",    PyNone,              PyInt(1)),
      Object("pulsar",  "w2",    PyInt(5),            PyList(<<3, 4>>)) }

\* Sequences over S of length lo..hi.
SeqsOf(S, lo, hi) == UNION { [1..n -> S] : n \in lo..hi }

\* The results a report function may be called with directly.
FnResults ==
    { [driver |-> d, workload |-> "w1", metrics |-> Metrics(a, b)] :
        d \in {"nats", Missing},
        a \in {Absent, PyNone, PyInt(0), PyInt(2), PyList(<<>>), PyList(<<1, 2>>)},
        b \in {Absent, PyNone, PyList(<<3>>)} }

\* ------------------------------------------------------------------------
\* State
\* ------------------------------------------------------------------------

VARIABLES
    pc,             \* the statement main is at
    argv_given,     \* len(sys.argv) >= 2
    dir_exists,     \* os.path.exists(results_dir)
    dir,            \* the *.json files of results_dir, in glob order
    idx,            \* load_results: the file the loop is at
    reads,          \* how often each file was opened for reading
    results,        \* load_results: the list being built, then main's results
    grouped,        \* grouped_results
    wi,             \* the workload the chart loop is at
    dirs,           \* the directories created below results_dir
    written,        \* the files written, in the order of the writes
    charts,         \* the charts saved, each with its path
    summary,        \* <<>> or <<the content of summary.txt>>
    report,         \* <<>> or <<the content of comparison_report.md>>
    stdout,         \* the progress and error lines printed (banners left out)
    status          \* <<>> while the process runs, then <<its exit status>>

vars == <<pc, argv_given, dir_exists, dir, idx, reads, results,
          grouped, wi, dirs, written, charts, summary, report, stdout, status>>

ChartsDir == <<"charts">>
WorkloadDir(w) == <<"charts", w>>
ThroughputPng == "throughput_comparison.png"
LatencyPng    == "latency_comparison.png"
EndToEndPng   == "end_to_end_latency_comparison.png"
ChartPath(w, name) == <<"charts", w, name>>
SummaryPath == <<"charts", "summary.txt">>
ReportPath  == <<"charts", "comparison_report.md">>

\* The state when the interpreter enters main().
Init ==
    /\ pc = "check_args"
    /\ argv_given \in BOOLEAN
    /\ dir_exists \in BOOLEAN
    /\ (~argv_given => ~dir_exists)
    /\ dir \in (IF dir_exists THEN SeqsOf(FileSamples, 0, MaxFiles) ELSE {<<>>})
    /\ idx = 1
    /\ reads = [i \in 1..Len(dir) |-> 0]
    /\ results = <<>>
    /\ grouped = <<>>
    /\ wi = 1
    /\ dirs = {}
    /\ written = <<>>
    /\ charts = <<>>
    /\ summary = <<>>
    /\ report = <<>>
    /\ stdout = <<>>
    /\ status = <<>>

\* sys.exit(code), or an uncaught exception (which exits with status 1).
Exit(to, code) ==
    /\ pc' = to
    /\ status' = <<code>>

\* if len(sys.argv) < 2: usage, exit 1
CheckArgs ==
    /\ pc = "check_args"
    /\ IF argv_given
       THEN /\ pc' = "check_dir"
            /\ UNCHANGED <<status, stdout>>
       ELSE /\ Exit("exit", 1)
            /\ stdout' = Append(stdout, <<"Usage">>)
    /\ UNCHANGED <<argv_given, dir_exists, dir, idx, reads, results,
                   grouped, wi, dirs, written, charts, summary, report>>

\* if not os.path.exists(results_dir): error, exit 1
CheckDir ==
    /\ pc = "check_dir"
    /\ IF dir_exists
       THEN /\ pc' = "make_charts_dir"
            /\ UNCHANGED <<status, stdout>>
       ELSE /\ Exit("exit", 1)
            /\ stdout' = Append(stdout, <<"Error: Directory does not exist">>)
    /\ UNCHANGED <<argv_given, dir_exists, dir, idx, reads, results,
                   grouped, wi, dirs, written, charts, summary, report>>

\* os.makedirs(charts_dir, exist_ok=True), then the "Loading results" line
MakeChartsDir ==
    /\ pc = "make_charts_dir"
    /\ dirs' = dirs \cup {ChartsDir}
    /\ stdout' = Append(stdout, <<"Loading results from">>)
    /\ pc' = "load"
    /\ UNCHANGED <<argv_given, dir_exists, dir, idx, reads, results,
                   grouped, wi, written, charts, summary, report, status>>

\* load_results: one iteration of the loop over glob("*.json").  The file
\* is opened once; a failure anywhere in the try block is printed and the
\* loop goes on.
LoadFile ==
    /\ pc = "load"
    /\ idx <= Len(dir)
    /\ reads' = [reads EXCEPT ![idx] = @ + 1]
    /\ IF LoadSucceeds(dir[idx])
       THEN /\ results' = Append(results, LoadedData(dir[idx], Stems[idx]))
            /\ stdout' = Append(stdout, <<"Loaded", Stems[idx]>>)
       ELSE /\ results' = results
            /\ stdout' = Append(stdout, <<"Error loading", Stems[idx]>>)
    /\ idx' = idx + 1
    /\ UNCHANGED <<pc, argv_given, dir_exists, dir, grouped, wi,
                   dirs, written, charts, summary, report, status>>

\* load_results returns; if not results: "No results found!", exit 1
CheckResults ==
    /\ pc = "load"
    /\ idx > Len(dir)
    /\ IF results = <<>>
       THEN /\ Exit("exit", 1)
            /\ stdout' = Append(stdout, <<"No results found!">>)
       ELSE /\ pc' = "group"
            /\ stdout' = Append(stdout, <<"Found", Len(results)>>)
            /\ UNCHANGED status
    /\ UNCHANGED <<argv_given, dir_exists, dir, idx, reads, results,
                   grouped, wi, dirs, written, charts, summary, report>>

\* grouped_results = group_by_workload(results)
Group ==
    /\ pc = "group"
    /\ grouped' = group_by_workload(results)
    /\ stdout' = Append(stdout, <<"Generating charts in">>)
    /\ wi' = 1
    /\ pc' = "workload_dir"
    /\ UNCHANGED <<argv_given, dir_exists, dir, idx, reads, results,
                   dirs, written, charts, summary, report, status>>

\* The head of the chart loop: os.makedirs(workload_dir, exist_ok=True)
MakeWorkloadDir ==
    /\ pc = "workload_dir"
    /\ wi <= Len(grouped)
    /\ dirs' = dirs \cup {WorkloadDir(grouped[wi].workload)}
    /\ stdout' = Append(stdout, <<"Processing workload", grouped[wi].workload>>)
    /\ pc' = "throughput"
    /\ UNCHANGED <<argv_given, dir_exists, dir, idx, reads, results,
                   grouped, wi, written, charts, summary, report, status>>

\* main goes on after a call that returned and dies of one that raised.
Continue(raised, next) ==
    IF raised
    THEN Exit("crashed", 1)
    ELSE /\ pc' = next
         /\ UNCHANGED status

\* A chart function called by main: the figure is saved unless building it raised.
SaveChart(chart, name, next) ==
    LET path == ChartPath(grouped[wi].workload, name)
    IN  /\ Continue(chart.raised, next)
        /\ IF chart.raised
           THEN UNCHANGED <<written, charts, stdout>>
           ELSE /\ written' = Append(written, path)
                /\ charts' = Append(charts, [path |-> path, chart |-> chart])
                /\ stdout' = Append(stdout, <<"Created", path>>)

ThroughputChart ==
    /\ pc = "throughput"
    /\ SaveChart(create_throughput_chart(grouped[wi].results), ThroughputPng, "latency")
    /\ UNCHANGED <<argv_given, dir_exists, dir, idx, reads, results,
                   grouped, wi, dirs, summary, report>>

LatencyChart ==
    /\ pc = "latency"
    /\ SaveChart(create_latency_chart(grouped[wi].results), LatencyPng, "end_to_end")
    /\ UNCHANGED <<argv_given, dir_exists, dir, idx, reads, results,
                   grouped, wi, dirs, summary, report>>

\* The last chart of a workload; the loop goes to the next workload.
EndToEndChart ==
    /\ pc = "end_to_end"
    /\ SaveChart(create_end_to_end_latency_chart(grouped[wi].results), EndToEndPng,
                 "workload_dir")
    /\ wi' = IF create_end_to_end_latency_chart(grouped[wi].results).raised
             THEN wi ELSE wi + 1
    /\ UNCHANGED <<argv_given, dir_exists, dir, idx, reads, results,
                   grouped, dirs, summary, report>>

\* What a call of create_summary_table leaves behind: summary.txt is
\* created when opened, an exception while a row is formatted leaves the
\* part written so far, and the "Created" line is printed on return.
WriteSummary ==
    LET content == create_summary_table(grouped)
    IN  /\ written' = Append(written, SummaryPath)
        /\ summary' = <<content>>
        /\ stdout' = IF content.raised THEN stdout
                     ELSE Append(stdout, <<"Created", SummaryPath>>)

\* What a call of create_comparison_report leaves behind.
WriteReport ==
    LET content == create_comparison_report(grouped)
    IN  /\ written' = Append(written, ReportPath)
        /\ report' = <<content>>
        /\ stdout' = IF content.raised THEN stdout
                     ELSE Append(stdout, <<"Created", ReportPath>>)

\* Mutant of Summary: the summary is written as soon as the charts of one
\* workload are done, whether or not workloads remain.
SummaryInsideLoop ==
    /\ pc = "workload_dir"
    /\ wi > 1
    /\ WriteSummary
    /\ Continue(create_summary_table(grouped).raised, "report")
    /\ UNCHANGED <<argv_given, dir_exists, dir, idx, reads, results,
                   grouped, wi, dirs, charts, report>>

\* After the chart loop: create_summary_table(grouped_results, charts_dir)
Summary ==
    /\ pc = "workload_dir"
    /\ wi > Len(grouped)
    /\ WriteSummary
    /\ Continue(create_summary_table(grouped).raised, "report")
    /\ UNCHANGED <<argv_given, dir_exists, dir, idx, reads, results,
                   grouped, wi, dirs, charts, report>>

\* create_comparison_report(grouped_results, charts_dir)
Report ==
    /\ pc = "report"
    /\ WriteReport
    /\ Continue(create_comparison_report(grouped).raised, "finish")
    /\ UNCHANGED <<argv_given, dir_exists, dir, idx, reads, results,
                   grouped, wi, dirs, charts, summary>>

\* The closing lines; main returns and the process exits with status 0.
Finish ==
    /\ pc = "finish"
    /\ stdout' = Append(stdout, <<"Charts generation complete!">>)
    /\ Exit("done", 0)
    /\ UNCHANGED <<argv_given, dir_exists, dir, idx, reads, results,
                   grouped, wi, dirs, written, charts, summary, report>>

Next ==
    \/ CheckArgs
    \/ CheckDir
    \/ MakeChartsDir
    \/ LoadFile
    \/ CheckResults
    \/ Group
    \/ MakeWorkloadDir
    \/ ThroughputChart
    \/ LatencyChart
    \/ EndToEndChart
    \/ Summary
    \/ Report
    \/ Finish

Spec == Init /\ [][Next]_vars

\* ------------------------------------------------------------------------
\* The report functions called directly on a group of results
\* ------------------------------------------------------------------------

InitFn ==
    /\ pc = "call"
    /\ argv_given = TRUE
    /\ dir_exists = TRUE
    /\ dir = <<>>
    /\ idx = 1
    /\ reads = <<>>
    /\ results \in SeqsOf(FnResults, 1, MaxGroup)
    /\ grouped = group_by_workload(results)
    /\ wi = 1
    /\ dirs = {ChartsDir}
    /\ written = <<>>
    /\ charts = <<>>
    /\ summary = <<>>
    /\ report = <<>>
    /\ stdout = <<>>
    /\ status = <<>>

\* create_summary_table(grouped_results, output_dir)
CallSummary ==
    /\ pc = "call"
    /\ summary = <<>>
    /\ WriteSummary
    /\ UNCHANGED <<pc, status, argv_given, dir_exists, dir, idx, reads, results,
                   grouped, wi, dirs, charts, report>>

\* create_comparison_report(grouped_results, output_dir)
CallReport ==
    /\ pc = "call"
    /\ report = <<>>
    /\ WriteReport
    /\ UNCHANGED <<pc, status, argv_given, dir_exists, dir, idx, reads, results,
                   grouped, wi, dirs, charts, summary>>

NextFn ==
    \/ CallSummary
    \/ CallReport

SpecFn == InitFn /\ [][NextFn]_vars

\* ------------------------------------------------------------------------
\* Properties
\* ------------------------------------------------------------------------

Range(f) == { f[i] : i \in DOMAIN f }

\* main has left group_by_workload behind.
AfterGroup ==
    pc \in {"workload_dir", "throughput", "latency", "end_to_end", "report",
            "finish", "done", "crashed"}

\* main has left load_results behind.
AfterLoad == AfterGroup \/ pc = "group" \/ (pc = "exit" /\ idx > Len(dir))

\* The rule of aggregation as the documentation words it: the mean of a
\* non-empty list, 0 for an empty list or an absent key, a scalar unchanged.
RuleValue(r, key) ==
    IF key \notin DOMAIN r.metrics THEN PyInt(0)
    ELSE LET val == r.metrics[key]
         IN  IF val.t = "list"
             THEN IF val.v = <<>> THEN PyInt(0) ELSE Num(Sum(val.v), Len(val.v))
             ELSE val

\* The rule covers the value: it is absent, a number or a list.
RuleCovers(r, key) ==
    key \notin DOMAIN r.metrics \/ r.metrics[key].t \in {"num", "list"}

\* C1: group_by_workload partitions the results by their 'workload' value:
\* the keys are distinct, every result's workload is a key, and the group of
\* a key is exactly the results with that workload, in their input order (so
\* no result is dropped, duplicated or put under another key).
C1_GroupPartition ==
    AfterGroup =>
        /\ \A j, k \in 1..Len(grouped) :
              grouped[j].workload = grouped[k].workload => j = k
        /\ \A i \in 1..Len(results) :
              \E k \in 1..Len(grouped) : grouped[k].workload = results[i].workload
        /\ \A k \in 1..Len(grouped) :
              /\ grouped[k].results # <<>>
              /\ grouped[k].results =
                    SelectSeq(results, LAMBDA r : r.workload = grouped[k].workload)

\* C1 witness: three results, the first and third of one workload with the
\* second of another between them, grouped into two groups.
C1_Witness ==
    /\ AfterGroup
    /\ Len(results) = 3
    /\ results[1].workload = results[3].workload
    /\ results[1].workload # results[2].workload
    /\ results[1] # results[3]
    /\ Len(grouped) = 2
    /\ Len(grouped[1].results) = 2

ChartNames == <<ThroughputPng, LatencyPng, EndToEndPng>>

\* The writes of a complete run, in order: the three charts of every
\* workload in the order of the groups, then summary.txt, then the report.
ExpectedWrites ==
    LET n == Len(grouped)
    IN  [j \in 1..(3 * n + 2) |->
            IF j <= 3 * n
            THEN ChartPath(grouped[((j - 1) \div 3) + 1].workload,
                           ChartNames[((j - 1) % 3) + 1])
            ELSE IF j = 3 * n + 1 THEN SummaryPath ELSE ReportPath]

IsPrefix(s, t) == Len(s) <= Len(t) /\ \A i \in 1..Len(s) : s[i] = t[i]

\* C2: main is one pass load -> group -> render.  No file is read more than
\* once and every file has been read once when grouping starts; nothing is
\* written before grouping is done; the writes made so far are always an
\* initial part of: throughput, publish-latency, end-to-end chart of each
\* workload in turn, then summary.txt, then comparison_report.md; and a run
\* that reaches its end has made each of these writes exactly once.
C2_LinearPipeline ==
    /\ \A i \in 1..Len(dir) : reads[i] <= 1
    /\ (pc = "group" \/ AfterGroup) =>
          /\ idx = Len(dir) + 1
          /\ \A i \in 1..Len(dir) : reads[i] = 1
    /\ grouped # <<>> => AfterGroup
    /\ written # <<>> => AfterGroup
    /\ IsPrefix(written, ExpectedWrites)
    /\ \A i, j \in 1..Len(written) : written[i] = written[j] => i = j
    /\ pc = "done" => written = ExpectedWrites /\ status = <<0>>

\* C2 witness: a finished run over two workloads.
C2_Witness ==
    /\ pc = "done"
    /\ Len(grouped) = 2
    /\ Len(written) = 8

\* The driver names of a sequence of results are pairwise distinct.
DistinctDrivers(drivers) ==
    \A i, j \in 1..Len(drivers) : drivers[i] = drivers[j] => i = j

\* C3: in every workload section of summary.txt and comparison_report.md and
\* on every chart's x-axis each driver name appears at most once.
C3_DriverOncePerWorkload ==
    /\ \A c \in 1..Len(charts) : DistinctDrivers(charts[c].chart.drivers)
    /\ \A x \in 1..Len(summary) : \A k \in 1..Len(summary[x].sections) :
          DistinctDrivers([i \in 1..Len(summary[x].sections[k].rows) |->
                              summary[x].sections[k].rows[i].driver])
    /\ \A x \in 1..Len(report) : \A k \in 1..Len(report[x].sections) :
          DistinctDrivers(report[x].sections[k].drivers)

\* The object files among the first n files of the directory.
ObjectFiles(n) == { i \in 1..n : dir[i].kind = "object" }

\* C4: load_results keeps exactly the files that parse to a JSON object, in
\* glob order, each once with its content (driver defaulting to 'unknown',
\* workload to the file name); every other file is reported and skipped; and
\* no file stops the loop: when load_results is over every file was visited.
C4_LoadIsolatesFailures ==
    LET seen == idx - 1
        objs == ObjectFiles(seen)
        Rank(i) == Cardinality({ j \in objs : j <= i })
    IN  /\ Len(results) = Cardinality(objs)
        /\ \A i \in objs :
              /\ results[Rank(i)].metrics = dir[i].metrics
              /\ results[Rank(i)].driver =
                    (IF dir[i].driver = Missing THEN "unknown" ELSE dir[i].driver)
              /\ results[Rank(i)].workload =
                    (IF dir[i].workload = Missing THEN Stems[i] ELSE dir[i].workload)
        /\ \A i \in 1..seen :
              IF i \in objs
              THEN /\ <<"Loaded", Stems[i]>> \in Range(stdout)
                   /\ <<"Error loading", Stems[i]>> \notin Range(stdout)
              ELSE /\ <<"Error loading", Stems[i]>> \in Range(stdout)
                   /\ <<"Loaded", Stems[i]>> \notin Range(stdout)
        /\ pc = "load" => status = <<>>
        /\ (AfterLoad /\ dir_exists) => seen = Len(dir)

\* C4 witness: load_results is over, the directory held a file that does
\* not parse, then an object, then a JSON array, and one result was kept.
C4_Witness ==
    /\ AfterLoad
    /\ Len(dir) = 3
    /\ dir[1].kind = "invalid"
    /\ dir[2].kind = "object"
    /\ dir[3].kind = "nonobject"
    /\ Len(results) = 1

\* A value shown for `key` with `p` decimals is the rule's value of some
\* result of the group that carries the driver name shown beside it.
ShownByRule(results_, driver, key, p, shown) ==
    \E i \in 1..Len(results_) :
        /\ GetDriver(results_[i]) = driver
        /\ RuleCovers(results_[i], key)
        /\ shown = Format(RuleValue(results_[i], key), p)

\* Every metric of every result of the groups is one the rule covers.
AllCovered ==
    \A k \in 1..Len(grouped) : \A i \in 1..Len(grouped[k].results) :
        \A key \in MetricKeys : RuleCovers(grouped[k].results[i], key)

\* The keys a chart file plots, by file name.
KeysOfChart(path) ==
    IF path[3] = ThroughputPng THEN ThroughputKeys
    ELSE IF path[3] = LatencyPng THEN LatencyKeys ELSE EndToEndKeys

GroupOf(w) == grouped[CHOOSE k \in 1..Len(grouped) : grouped[k].workload = w]

\* C5: every metric shown on a chart, in summary.txt or in
\* comparison_report.md (the table and the two analysis lines) is the value
\* the rule gives: mean of a non-empty list, 0 for an empty list or an
\* absent key, a scalar unchanged.
C5_OneAggregationRule ==
    AllCovered =>
    /\ \A c \in 1..Len(charts) :
          LET rs   == GroupOf(charts[c].path[2]).results
              keys == KeysOfChart(charts[c].path)
          IN  \A s \in 1..Len(keys) : \A i \in 1..Len(rs) :
                  charts[c].chart.bars[s][i] = RuleValue(rs[i], keys[s])
    /\ \A x \in 1..Len(summary) : \A k \in 1..Len(summary[x].sections) :
          LET rs == grouped[k].results
          IN  \A i \in 1..Len(summary[x].sections[k].rows) :
                \A m \in 1..Len(SummaryKeys) :
                  summary[x].sections[k].rows[i].cells[m] =
                      Format(RuleValue(rs[i], SummaryKeys[m]), SummaryPlaces[m])
    /\ \A x \in 1..Len(report) : \A k \in 1..Len(report[x].sections) :
          LET rs  == grouped[k].results
              sec == report[x].sections[k]
          IN  /\ \A m \in 1..Len(ReportKeys) : \A i \in 1..Len(rs) :
                    sec.rows[m][i] = Format(RuleValue(rs[i], ReportKeys[m]), ReportPlaces[m])
              /\ ShownByRule(rs, sec.best_throughput.driver, "publishRate", 0,
                             sec.best_throughput.value)
              /\ ShownByRule(rs, sec.lowest_p99.driver, "publishLatency99pct", 2,
                             sec.lowest_p99.value)

\* a <= b on numbers.
AtMost(a, b) == ~Less(b, a)

\* C6: in every section of comparison_report.md the 'Best Throughput' line
\* names the driver of the first result of the group whose aggregated
\* publishRate is the largest of the group, and prints that largest value.
C6_BestThroughput ==
    AllCovered =>
    \A x \in 1..Len(report) : \A k \in 1..Len(report[x].sections) :
        LET rs  == grouped[k].results
            thr == [i \in 1..Len(rs) |-> RuleValue(rs[i], "publishRate")]
            sec == report[x].sections[k]
        IN  \E i \in 1..Len(rs) :
               /\ \A j \in 1..Len(rs) : AtMost(thr[j], thr[i])
               /\ \A j \in 1..(i - 1) : Less(thr[j], thr[i])
               /\ sec.best_throughput.driver = GetDriver(rs[i])
               /\ sec.best_throughput.value = Format(thr[i], 0)

\* C6 witness: a written report with a workload whose largest publishRate
\* is shared by two results of different drivers, after a smaller one.
C6_Witness ==
    /\ report # <<>>
    /\ AllCovered
    /\ \E k \in 1..Len(grouped) :
          LET rs == grouped[k].results
          IN  /\ Len(rs) = 3
              /\ Less(RuleValue(rs[1], "publishRate"), RuleValue(rs[2], "publishRate"))
              /\ RuleValue(rs[2], "publishRate") = RuleValue(rs[3], "publishRate")
              /\ rs[2].driver # rs[3].driver
              /\ rs[1].driver = rs[3].driver
              /\ report[1].sections[k].best_throughput.driver = rs[2].driver

\* C7: in every section of comparison_report.md whose workload has a result
\* with a strictly positive aggregated publishLatency99pct, the 'Lowest P99
\* Latency' line names the driver of a result whose value is positive and
\* the smallest of the positive values, and prints that value, a finite
\* number.
C7_LowestP99 ==
    AllCovered =>
    \A x \in 1..Len(report) : \A k \in 1..Len(report[x].sections) :
        LET rs  == grouped[k].results
            lat == [i \in 1..Len(rs) |-> RuleValue(rs[i], "publishLatency99pct")]
            sec == report[x].sections[k]
        IN  (\E i \in 1..Len(rs) : Positive(lat[i])) =>
               \E i \in 1..Len(rs) :
                  /\ Positive(lat[i])
                  /\ \A j \in 1..Len(rs) : Positive(lat[j]) => AtMost(lat[i], lat[j])
                  /\ \A j \in 1..(i - 1) : Positive(lat[j]) => Less(lat[i], lat[j])
                  /\ sec.lowest_p99.driver = GetDriver(rs[i])
                  /\ sec.lowest_p99.value = Format(lat[i], 2)
                  /\ sec.lowest_p99.value.t = "dec"

\* C7 witness: a written report with a workload of three results, one
\* without publishLatency99pct, one with an empty list or 0 and, after one
\* of these, one with a positive value, which is the one reported.
C7_Witness ==
    /\ report # <<>>
    /\ AllCovered
    /\ \E k \in 1..Len(grouped) :
          LET rs == grouped[k].results
          IN  /\ Len(rs) = 3
              /\ \E i, j \in 1..2 :
                    /\ "publishLatency99pct" \notin DOMAIN rs[i].metrics
                    /\ "publishLatency99pct" \in DOMAIN rs[j].metrics
                    /\ RuleValue(rs[j], "publishLatency99pct") = PyInt(0)
              /\ Positive(RuleValue(rs[3], "publishLatency99pct"))
              /\ rs[3].driver \notin {rs[1].driver, rs[2].driver}
              /\ report[1].sections[k].lowest_p99.driver = rs[3].driver

\* C8: an error exit of main (no argument, no directory, no result loaded)
\* has status 1 and has created no directory and written no file.
C8_ErrorExitLeavesNoTrace ==
    pc = "exit" =>
        /\ status = <<1>>
        /\ dirs = {}
        /\ written = <<>>

\* C9: called on the same groups, create_summary_table and
\* create_comparison_report either both fail or both succeed, and then show
\* the same number for each result under each of publishRate, consumeRate,
\* publishLatency50pct, publishLatency99pct and endToEndLatencyAvg.
C9_SummaryAgreesWithReport ==
    (summary # <<>> /\ report # <<>>) =>
        /\ summary[1].raised = report[1].raised
        /\ \A k \in 1..Len(grouped) :
              /\ k <= Len(summary[1].sections)
              /\ k <= Len(report[1].sections)
              /\ \A i \in 1..Len(grouped[k].results) :
                    /\ i <= Len(summary[1].sections[k].rows)
                    /\ \A m \in 1..Len(SummaryKeys) :
                          \E n \in 1..Len(ReportKeys) :
                             /\ ReportKeys[n] = SummaryKeys[m]
                             /\ summary[1].sections[k].rows[i].cells[m] =
                                   report[1].sections[k].rows[n][i]

====
